---- MODULE Spec2Model ----
(***************************************************************************)
(* A model of scraper.py: the value normalizers, the label-value locator   *)
(* get_movie_value, the record assembler get_movie_data, the pagination    *)
(* crawler get_movies_from_letters and the run over the movie URLs         *)
(* get_all_movie_data with the pickle files the script writes.             *)
(*                                                                         *)
(* Text is unicode text as BeautifulSoup yields it, modelled as a sequence *)
(* of one-character strings.  Python values are tagged records:            *)
(* PyNone, PyStr(s), PyInt(n), PyList(l), PyDate(d), PyTag(strings).       *)
(***************************************************************************)
EXTENDS Integers, Sequences, FiniteSets, TLC

VARIABLES
    raw, fn, out,           \* a normalizer call: argument, function name, result
    soup, field_name, is_people, value,   \* a get_movie_value call and its result
    movie_dict,             \* the result of get_movie_data(soup)
    letter_list,            \* the partition keys get_movies_from_letters is given
    pc,                     \* where the first phase of the script is
    letter_i, page,         \* the letter (its place in letter_list) and page of the loop
    movie_urls,             \* get_movies_on_page's result for the page just fetched
    all_movie_urls,         \* the list get_movies_from_letters builds
    served,                 \* the index pages fetched so far, with what the site served
    all_movies_list,        \* the script's name of that, <<>> while unbound
    list_pkl,               \* all-movies-list2.pkl: <<>> or <<the list dumped>>
    url_list,               \* the list get_all_movie_data is given
    rpc, next_i,            \* where the second phase is: the loop's position
    all_movie_data, failed_urls,    \* the two lists get_all_movie_data builds
    requested,              \* the movie pages requested so far
    data_pkl, failed_pkl,   \* all-movies-data.pkl, failed-urls.pkl: <<>> or <<list>>
    stored                  \* the movies whose records data_pkl held at the start

normVars == <<raw, fn, out>>
locVars == <<soup, field_name, is_people, value, movie_dict>>
crawlVars == <<letter_list, pc, letter_i, page, movie_urls, all_movie_urls,
               served, all_movies_list, list_pkl>>
runVars == <<url_list, rpc, next_i, all_movie_data, failed_urls, requested,
             data_pkl, failed_pkl, stored>>
vars == <<normVars, locVars, crawlVars, runVars>>

-----------------------------------------------------------------------------
(* Python values *)

PyNone == [kind |-> "None"]
PyStr(s) == [kind |-> "str", val |-> s]
PyInt(n) == [kind |-> "int", val |-> n]
PyList(l) == [kind |-> "list", val |-> l]
PyDate(d) == [kind |-> "date", val |-> d]
\* a bs4 Tag, as far as the normalizers read it: the text nodes below it
PyTag(strings) == [kind |-> "tag", val |-> strings]
\* what dateutil makes of a digit-bearing text that is not in DateTable:
\* a datetime, or PyNone when the parser raises
DateOrNone(s) == [kind |-> "date_or_None", val |-> s]
PyDict(d) == [kind |-> "dict", val |-> d]

Range(s) == {s[i] : i \in DOMAIN s}
MinOf(S) == CHOOSE x \in S : \A y \in S : x <= y

-----------------------------------------------------------------------------
(* Python string methods, on sequences of characters *)

Whitespace == {" ", "\n", "\t"}
NonAscii == {"é"}
UpperCase == <<"A", "B", "C", "D", "E", "F", "G", "H", "I", "J", "K", "L", "M",
               "N", "O", "P", "Q", "R", "S", "T", "U", "V", "W", "X", "Y", "Z">>
LowerCase == <<"a", "b", "c", "d", "e", "f", "g", "h", "i", "j", "k", "l", "m",
               "n", "o", "p", "q", "r", "s", "t", "u", "v", "w", "x", "y", "z">>
DigitChars == <<"0", "1", "2", "3", "4", "5", "6", "7", "8", "9">>

RECURSIVE lstrip(_, _)
lstrip(s, chars) ==
    IF s # <<>> /\ Head(s) \in chars THEN lstrip(Tail(s), chars) ELSE s

RECURSIVE rstrip(_, _)
rstrip(s, chars) ==
    IF s # <<>> /\ s[Len(s)] \in chars
    THEN rstrip(SubSeq(s, 1, Len(s) - 1), chars)
    ELSE s

\* s.strip() is strip(s, Whitespace); s.strip('*') is strip(s, {"*"})
strip(s, chars) == rstrip(lstrip(s, chars), chars)

\* s.replace(c, '')
remove(s, c) == SelectSeq(s, LAMBDA x : x # c)

\* s.split(sep) for a separator in seps: one piece more than separators
RECURSIVE split(_, _)
split(s, seps) ==
    LET at == {i \in DOMAIN s : s[i] \in seps} IN
    IF at = {} THEN <<s>>
    ELSE LET i == MinOf(at) IN
         <<SubSeq(s, 1, i - 1)>> \o split(SubSeq(s, i + 1, Len(s)), seps)

\* s.split(): runs of whitespace separate, no empty piece
split_ws(s) == SelectSeq(split(s, Whitespace), LAMBDA p : p # <<>>)

lower_char(c) ==
    IF \E i \in DOMAIN UpperCase : UpperCase[i] = c
    THEN LowerCase[CHOOSE i \in DOMAIN UpperCase : UpperCase[i] = c]
    ELSE c

lower(s) == [i \in DOMAIN s |-> lower_char(s[i])]

IsDigit(c) == \E i \in DOMAIN DigitChars : DigitChars[i] = c
DigitVal(c) == (CHOOSE i \in DOMAIN DigitChars : DigitChars[i] = c) - 1
isdigit(s) == s # <<>> /\ \A i \in DOMAIN s : IsDigit(s[i])

RECURSIVE Decimal(_)
Decimal(s) ==
    IF s = <<>> THEN 0
    ELSE 10 * Decimal(SubSeq(s, 1, Len(s) - 1)) + DigitVal(s[Len(s)])

RECURSIVE Pow10(_)
Pow10(n) == IF n = 0 THEN 1 ELSE 10 * Pow10(n - 1)

\* str(u) of unicode text raises UnicodeEncodeError on a non-ASCII character
str_raises(s) == \E i \in DOMAIN s : s[i] \in NonAscii

\* int(s): whitespace around, an optional sign, then digits
Unsigned(s) == IF s # <<>> /\ Head(s) \in {"+", "-"} THEN Tail(s) ELSE s
int_ok(s) == isdigit(Unsigned(strip(s, Whitespace)))
int_val(s) ==
    LET t == strip(s, Whitespace) IN
    IF Head(t) = "-" THEN 0 - Decimal(Unsigned(t)) ELSE Decimal(Unsigned(t))

\* float(s) of a decimal numeral: whitespace around, an optional sign, digits
\* with at most one point and at least one digit
float_ok(s) ==
    LET u == Unsigned(strip(s, Whitespace))
        points == {i \in DOMAIN u : u[i] = "."}
    IN  /\ Cardinality(points) <= 1
        /\ isdigit(remove(u, "."))

\* int(float(s) * mult) for a numeral float_ok accepts and mult a power of
\* ten: the decimal product, truncated (the powers of ten are cancelled
\* first: the model's integers are 32 bits wide, Python's are not, and the
\* model's budgets stay below 2^31)
int_float_times(s, mult) ==
    LET t == strip(s, Whitespace)
        u == Unsigned(t)
        points == {i \in DOMAIN u : u[i] = "."}
        frac == IF points = {} THEN 0 ELSE Len(u) - MinOf(points)
        mant == Decimal(remove(u, "."))
        mag == IF Pow10(frac) <= mult
               THEN mant * (mult \div Pow10(frac))
               ELSE mant \div (Pow10(frac) \div mult)
    IN  IF t # <<>> /\ Head(t) = "-" THEN 0 - mag ELSE mag

-----------------------------------------------------------------------------
(* Texts the model names *)

S_empty == <<>>
S_NA == <<"N", "/", "A">>
S_title == <<"F", "o", "o", " ", "B", "a", "r", " ", "(", "2", "0", "0", "1", ")">>
S_budget == <<"$", "1", "2", ".", "5", " ", "m", "i", "l", "l", "i", "o", "n">>
S_runtime == <<"2", " ", "h", "r", " ", "1", "5", " ", "m", "i", "n">>
S_money == <<"$", "1", ",", "2", "3", "4", ",", "5", "6", "7">>
S_theaters == <<"3", ",", "2", "0", "2", " ", "t", "h", "e", "a", "t", "e", "r", "s">>
S_date == <<"6", "/", "5", "/", "2", "0", "1", "5">>
S_oscars_spec ==
    <<"N", "o", "m", "i", "n", "a", "t", "e", "d", " ", "f", "o", "r", " ", "3",
      " ", "O", "s", "c", "a", "r", "s", ".", "\n", "W", "o", "n", " ", "1", ",",
      " ", "i", "n", "c", "l", "u", "d", "i", "n", "g", " ", "B", "e", "s", "t",
      " ", "P", "i", "c", "t", "u", "r", "e", ".">>
S_oscars_two ==
    <<"N", "o", "m", "i", "n", "a", "t", "e", "d", " ", "f", "o", "r", " ", "e",
      "i", "g", "h", "t", " ", "O", "s", "c", "a", "r", "s", ",", " ", "w", "o",
      "n", " ", "t", "h", "r", "e", "e", ".">>
S_oscars_one ==
    <<"N", "o", "m", "i", "n", "a", "t", "e", "d", " ", "f", "o", "r", " ", "3",
      " ", "O", "s", "c", "a", "r", "s", ".">>

-----------------------------------------------------------------------------
(* The libraries the normalizers call *)

\* dateutil.parser.parse: the texts it is known to read, with the datetime
DateTable == {<<S_date, <<2015, 6, 5>>>>}

\* The model's texts hold no month or weekday name, so a text without a
\* digit holds no date and the parser raises ValueError.
dateutil_raises(s) == \A i \in DOMAIN s : ~IsDigit(s[i])

dateutil_parse(s) ==
    IF \E e \in DateTable : e[1] = s
    THEN PyDate((CHOOSE e \in DateTable : e[1] = s)[2])
    ELSE DateOrNone(s)

\* word2number: the number words of the model's texts
american_number_system ==
    {<<(<<"o", "n", "e">>), 1>>,
     <<(<<"t", "w", "o">>), 2>>,
     <<(<<"t", "h", "r", "e", "e">>), 3>>,
     <<(<<"e", "i", "g", "h", "t">>), 8>>}

NumberWords(w) ==
    SelectSeq(split_ws([i \in DOMAIN w |-> IF w[i] = "-" THEN " " ELSE w[i]]),
              LAMBDA t : \E e \in american_number_system : e[1] = t)

\* w2n.word_to_num(w) raises ValueError when w is neither a digit string nor
\* holds a number word
w2n_raises(w) == ~isdigit(w) /\ NumberWords(lower(w)) = <<>>

\* w2n.word_to_num(w) for a digit string or a text with one number word
word_to_num(w) ==
    IF isdigit(w) THEN Decimal(w)
    ELSE (CHOOSE e \in american_number_system :
              e[1] = NumberWords(lower(w))[1])[2]

-----------------------------------------------------------------------------
(* The normalizers.  X_try is the try block of X: its value, or Raised    *)
(* when a statement of it raises; X adds the except branch.                *)

Raised == [kind |-> "raise"]
Except(result, default) == IF result.kind = "raise" THEN default ELSE result

\* str.split of None or of a Tag raises (AttributeError, TypeError)
clean_title_try(titlestring) ==
    IF titlestring.kind # "str" THEN Raised
    ELSE LET head == split(titlestring.val, {"("})[1] IN
         IF str_raises(head) THEN Raised
         ELSE PyStr(strip(head, Whitespace))

clean_title(titlestring) == Except(clean_title_try(titlestring), PyNone)

to_date_try(datestring) ==
    IF datestring.kind # "str" THEN Raised
    ELSE LET t == strip(datestring.val, Whitespace) IN
         IF dateutil_raises(t) THEN Raised
         ELSE dateutil_parse(t)

\* to_date without its except branch
to_date_uncaught(datestring) == to_date_try(datestring)

to_date(datestring) == Except(to_date_try(datestring), PyNone)

money_to_int_try(moneystring) ==
    IF moneystring.kind # "str" THEN Raised
    ELSE LET m == remove(remove(moneystring.val, "$"), ",") IN
         IF int_ok(m) THEN PyInt(int_val(m)) ELSE Raised

money_to_int(moneystring) == Except(money_to_int_try(moneystring), PyNone)

vals_dict ==
    {<<(<<"t", "h", "o", "u", "s", "a", "n", "d">>), 1000>>,
     <<(<<"m", "i", "l", "l", "i", "o", "n">>), 1000000>>,
     <<(<<"b", "i", "l", "l", "i", "o", "n">>), 1000000000>>}

budget_to_int_try(budgetstring) ==
    IF budgetstring.kind # "str" THEN Raised
    ELSE LET budget_val_list == split(remove(budgetstring.val, "$"), {" "}) IN
         IF /\ float_ok(budget_val_list[1])
            /\ Len(budget_val_list) >= 2
            /\ \E e \in vals_dict : e[1] = budget_val_list[2]
         THEN PyInt(int_float_times(budget_val_list[1],
                  (CHOOSE e \in vals_dict : e[1] = budget_val_list[2])[2]))
         ELSE Raised

budget_to_int(budgetstring) == Except(budget_to_int_try(budgetstring), PyNone)

\* peopleobj.stripped_strings: the text nodes below the tag, stripped, the
\* empty ones left out
stripped_strings(tag) ==
    SelectSeq([i \in DOMAIN tag.val |-> strip(tag.val[i], Whitespace)],
              LAMBDA p : p # <<>>)

\* a text has no stripped_strings (AttributeError)
people_to_list_try(peopleobj) ==
    IF peopleobj.kind # "tag" THEN Raised
    ELSE LET kept == SelectSeq(stripped_strings(peopleobj),
                               LAMBDA person : "(" \notin Range(person))
             people_list == [i \in DOMAIN kept |-> strip(kept[i], {"*"})]
         IN  IF \E i \in DOMAIN people_list : str_raises(people_list[i])
             THEN Raised
             ELSE PyList(people_list)

people_to_list(peopleobj) ==
    IF peopleobj.kind = "None" THEN PyNone
    ELSE Except(people_to_list_try(peopleobj), PyNone)

noms_from_oscars_try(oscarsstring) ==
    IF oscarsstring.kind # "str" THEN Raised
    ELSE LET clause == split(oscarsstring.val, {","})[1]
             nominations_str == split(lower(strip(clause, Whitespace)), {" "})
         IN  IF \/ str_raises(clause)
                \/ Len(nominations_str) < 3
                \/ w2n_raises(nominations_str[3])
             THEN Raised
             ELSE PyInt(word_to_num(nominations_str[3]))

noms_from_oscars(oscarsstring) ==
    Except(noms_from_oscars_try(oscarsstring), PyInt(0))

\* wins_from_oscars reading the clause before the comma
wins_from_first_clause(oscarsstring) ==
    IF oscarsstring.kind # "str" THEN Raised
    ELSE LET clauses == split(oscarsstring.val, {","}) IN
         IF str_raises(clauses[1]) THEN Raised
         ELSE LET wins_str ==
                      split(lower(strip(remove(clauses[1], "."), Whitespace)),
                            {" "})
              IN  IF Len(wins_str) < 2 \/ w2n_raises(wins_str[2])
                  THEN Raised
                  ELSE PyInt(word_to_num(wins_str[2]))

wins_from_oscars_try(oscarsstring) ==
    IF oscarsstring.kind # "str" THEN Raised
    ELSE LET clauses == split(oscarsstring.val, {","}) IN
         IF Len(clauses) < 2 \/ str_raises(clauses[2]) THEN Raised
         ELSE LET wins_str ==
                      split(lower(strip(remove(clauses[2], "."), Whitespace)),
                            {" "})
              IN  IF Len(wins_str) < 2 \/ w2n_raises(wins_str[2])
                  THEN Raised
                  ELSE PyInt(word_to_num(wins_str[2]))

wins_from_oscars(oscarsstring) ==
    Except(wins_from_oscars_try(oscarsstring), PyInt(0))

theaters_to_int_try(theaterstring) ==
    IF theaterstring.kind # "str" THEN Raised
    ELSE LET theaters ==
                 split(remove(strip(theaterstring.val, Whitespace), ","),
                       {" "})[1]
         IN  IF int_ok(theaters) THEN PyInt(int_val(theaters)) ELSE Raised

theaters_to_int(theaterstring) ==
    Except(theaters_to_int_try(theaterstring), PyNone)

runtime_to_minutes_try(runtimestring) ==
    IF runtimestring.kind # "str" THEN Raised
    ELSE LET runtime == split_ws(runtimestring.val) IN
         IF Len(runtime) >= 3 /\ int_ok(runtime[1]) /\ int_ok(runtime[3])
         THEN PyInt(int_val(runtime[1]) * 60 + int_val(runtime[3]))
         ELSE Raised

runtime_to_minutes(runtimestring) ==
    Except(runtime_to_minutes_try(runtimestring), PyNone)

-----------------------------------------------------------------------------
(* Parsed documents.  A document is the sequence of its nodes in document   *)
(* order; a node is a tag, a text node or a comment (text nodes and         *)
(* comments are bs4's NavigableString), with the index of its parent, 0 for *)
(* the BeautifulSoup object itself.                                         *)

TagNode(parent, name) == [kind |-> "tag", parent |-> parent, val |-> name]
TextNode(parent, text) == [kind |-> "text", parent |-> parent, val |-> text]
CommentNode(parent, text) ==
    [kind |-> "comment", parent |-> parent, val |-> text]

IsString(d, i) == d[i].kind \in {"text", "comment"}

RECURSIVE IsUnder(_, _, _)
IsUnder(d, j, n) ==
    /\ j # 0
    /\ \/ d[j].parent = n
       \/ IsUnder(d, d[j].parent, n)

RECURSIVE Concat(_)
Concat(ss) == IF ss = <<>> THEN <<>> ELSE Head(ss) \o Concat(Tail(ss))

\* the text nodes below tag n, in document order (comments are left out)
strings_under(d, n) ==
    LET below == SelectSeq([j \in DOMAIN d |-> j],
                           LAMBDA j : d[j].kind = "text" /\ IsUnder(d, j, n))
    IN  [k \in DOMAIN below |-> d[below[k]].val]

\* tag.get_text()
get_text(d, n) == Concat(strings_under(d, n))

\* the Tag object of node n
TagAt(d, n) == [kind |-> "tag", val |-> strings_under(d, n), node |-> n]

\* re.compile(pattern).search(text) for a pattern without metacharacters
re_search(pattern, text) ==
    \E i \in 0..(Len(text) - Len(pattern)) :
        SubSeq(text, i + 1, i + Len(pattern)) = pattern

First(S) == IF S = {} THEN 0 ELSE MinOf(S)

\* soup.find(text=re.compile(field)): the first string in document order
find_text(d, field) ==
    First({i \in DOMAIN d : IsString(d, i) /\ re_search(field, d[i].val)})

\* soup.find(name): the first tag of that name
find_tag(d, name) ==
    First({i \in DOMAIN d : d[i].kind = "tag" /\ d[i].val = name})

\* obj.findNextSibling(): without criteria bs4 matches tags only
findNextSibling(d, obj) ==
    First({j \in DOMAIN d :
              j > obj /\ d[j].parent = d[obj].parent /\ d[j].kind = "tag"})

\* obj.findNext(): the next tag in document order
findNext(d, obj) == First({j \in DOMAIN d : j > obj /\ d[j].kind = "tag"})

\* get_movie_value without the elif branch
get_movie_value_sibling_only(d, field, people) ==
    LET obj == find_text(d, field) IN
    IF obj = 0 THEN PyNone
    ELSE LET next_sibling == findNextSibling(d, obj) IN
         IF next_sibling # 0
         THEN IF people THEN TagAt(d, next_sibling)
              ELSE PyStr(get_text(d, next_sibling))
         ELSE PyNone

get_movie_value(d, field, people) ==
    LET obj == find_text(d, field) IN
    IF obj = 0 THEN PyNone
    ELSE LET next_sibling == findNextSibling(d, obj)
             next_obj == findNext(d, obj)
         IN  IF next_sibling # 0
             THEN IF people THEN TagAt(d, next_sibling)
                  ELSE PyStr(get_text(d, next_sibling))
             ELSE IF next_obj # 0
             THEN IF people THEN TagAt(d, next_obj)
                  ELSE PyStr(get_text(d, next_obj))
             ELSE PyNone

-----------------------------------------------------------------------------
(* get_movie_data *)

L_rating == <<"M", "P", "A", "A", " ", "R", "a", "t", "i", "n", "g">>
L_genre == <<"G", "e", "n", "r", "e", ":">>
L_distributor == <<"D", "i", "s", "t", "r", "i", "b", "u", "t", "o", "r">>
L_theaters == <<"W", "i", "d", "e", "s", "t">>
L_budget == <<"P", "r", "o", "d", "u", "c", "t", "i", "o", "n">>
L_domestic == <<"D", "o", "m", "e", "s", "t", "i", "c", " ", "T", "o", "t", "a", "l">>
L_worldwide == <<"W", "o", "r", "l", "d", "w", "i", "d", "e">>
L_oscars == <<"A", "c", "a", "d", "e", "m", "y", " ", "A", "w", "a", "r", "d", "s">>
L_release == <<"R", "e", "l", "e", "a", "s", "e", " ", "D", "a", "t", "e">>
L_close == <<"C", "l", "o", "s", "e">>
L_runtime == <<"R", "u", "n", "t", "i", "m", "e">>
L_director == <<"D", "i", "r", "e", "c", "t", "o", "r">>
L_writer == <<"W", "r", "i", "t", "e", "r">>
L_actor == <<"A", "c", "t", "o", "r">>
L_producer == <<"P", "r", "o", "d", "u", "c", "e", "r">>

\* str(x): 'None' for None; UnicodeEncodeError for non-ASCII unicode text
py_str(x) ==
    IF x.kind = "None" THEN PyStr(<<"N", "o", "n", "e">>)
    ELSE IF str_raises(x.val) THEN Raised
    ELSE x

headers ==
    <<"1-title", "rating", "genre", "distributor", "theaters", "budget",
      "dom_total_gross", "intl_total_gross", "oscar_noms", "oscar_wins",
      "2-release_date", "3-closing_date", "runtime_(mins)", "director",
      "writers", "actors", "producers">>

\* dict(zip(headers, values))
dict_zip(keys, values) ==
    [k \in Range(keys) |-> values[CHOOSE i \in DOMAIN keys : keys[i] = k]]

\* the dictionary, or Raised: soup.find('title') is None when the document
\* has no title element, and .text of None raises AttributeError
get_movie_data(d) ==
    LET title_tag == find_tag(d, "title")
        rating == py_str(get_movie_value(d, L_rating, FALSE))
        genre == py_str(get_movie_value(d, L_genre, FALSE))
        distributor == py_str(get_movie_value(d, L_distributor, FALSE))
        raw_oscars == get_movie_value(d, L_oscars, FALSE)
    IN  IF title_tag = 0 THEN Raised
        ELSE IF Raised \in {rating, genre, distributor} THEN Raised
        ELSE PyDict(dict_zip(headers,
            <<clean_title(PyStr(get_text(d, title_tag))),
              rating,
              genre,
              distributor,
              theaters_to_int(get_movie_value(d, L_theaters, FALSE)),
              budget_to_int(get_movie_value(d, L_budget, FALSE)),
              money_to_int(get_movie_value(d, L_domestic, FALSE)),
              money_to_int(get_movie_value(d, L_worldwide, FALSE)),
              noms_from_oscars(raw_oscars),
              wins_from_oscars(raw_oscars),
              to_date(get_movie_value(d, L_release, FALSE)),
              to_date(get_movie_value(d, L_close, FALSE)),
              runtime_to_minutes(get_movie_value(d, L_runtime, FALSE)),
              people_to_list(get_movie_value(d, L_director, TRUE)),
              people_to_list(get_movie_value(d, L_writer, TRUE)),
              people_to_list(get_movie_value(d, L_actor, TRUE)),
              people_to_list(get_movie_value(d, L_producer, TRUE))>>))

-----------------------------------------------------------------------------
(* The parts of the state a specification does not use stay as they are *)

NotCalled == [kind |-> "not_called"]

IdleNorm == raw = PyNone /\ fn = "idle" /\ out = PyNone
IdleLoc ==
    /\ soup = <<>>
    /\ field_name = <<>>
    /\ is_people = FALSE
    /\ value = NotCalled
    /\ movie_dict = NotCalled
IdleCrawl ==
    /\ letter_list = <<>>
    /\ pc = "idle"
    /\ letter_i = 0
    /\ page = 0
    /\ movie_urls = <<>>
    /\ all_movie_urls = <<>>
    /\ served = <<>>
    /\ all_movies_list = <<>>
    /\ list_pkl = <<>>
IdleRun ==
    /\ url_list = <<>>
    /\ rpc = "idle"
    /\ next_i = 0
    /\ all_movie_data = <<>>
    /\ failed_urls = <<>>
    /\ requested = <<>>
    /\ data_pkl = <<>>
    /\ failed_pkl = <<>>
    /\ stored = {}

-----------------------------------------------------------------------------
(* Calls of the normalizers on bounded inputs *)

MaxLen == 2
Sigma == {"1", "2", "$", ",", " ", "(", ".", "*", "é"}
Texts == UNION {[1..n -> Sigma] : n \in 0..MaxLen}
SampleTexts ==
    {S_empty, S_NA, S_title, S_budget, S_runtime, S_money, S_theaters, S_date,
     S_oscars_spec, S_oscars_two, S_oscars_one}
\* None, texts, and two Tags: an empty one and one with four text nodes
RawInputs ==
    {PyNone} \cup {PyStr(s) : s \in Texts \cup SampleTexts} \cup
    {PyTag(<<>>),
     PyTag(<<(<<"F", "o", "o", " ", "B", "a", "r">>),
             (<<" ", "*", "N", "/", "A", "\n">>),
             (<<"(", "1", ")">>),
             (<<" ">>)>>)}

InitNorm ==
    /\ raw \in RawInputs
    /\ fn = "none"
    /\ out = PyNone
    /\ IdleLoc /\ IdleCrawl /\ IdleRun

Call(name, result) ==
    /\ fn = "none"
    /\ fn' = name
    /\ out' = result
    /\ UNCHANGED <<raw, locVars, crawlVars, runVars>>

Call_clean_title == Call("clean_title", clean_title(raw))
Call_to_date == Call("to_date", to_date(raw))
Call_money_to_int == Call("money_to_int", money_to_int(raw))
Call_budget_to_int == Call("budget_to_int", budget_to_int(raw))
Call_people_to_list == Call("people_to_list", people_to_list(raw))
Call_noms_from_oscars == Call("noms_from_oscars", noms_from_oscars(raw))
Call_wins_from_oscars == Call("wins_from_oscars", wins_from_oscars(raw))
Call_theaters_to_int == Call("theaters_to_int", theaters_to_int(raw))
Call_runtime_to_minutes == Call("runtime_to_minutes", runtime_to_minutes(raw))

NextNorm ==
    \/ Call_clean_title
    \/ Call_to_date
    \/ Call_money_to_int
    \/ Call_budget_to_int
    \/ Call_people_to_list
    \/ Call_noms_from_oscars
    \/ Call_wins_from_oscars
    \/ Call_theaters_to_int
    \/ Call_runtime_to_minutes

SpecNorm == InitNorm /\ [][NextNorm]_vars

-----------------------------------------------------------------------------
(* Calls of get_movie_value on every small document *)

MaxNodes == 4
S_Drama == <<"D", "r", "a", "m", "a">>

LastChild(d, p) ==
    LET kids == {j \in DOMAIN d : d[j].parent = p} IN
    IF kids = {} THEN 0 ELSE CHOOSE j \in kids : \A k \in kids : k <= j

\* the open elements after the last node of d: where the parser can put the
\* next node
OpenTags(d) ==
    {0} \cup {j \in DOMAIN d :
                 /\ d[j].kind = "tag"
                 /\ j = Len(d) \/ IsUnder(d, Len(d), j)}

\* the parser joins adjacent text, so a text node never follows a text node
\* under the same parent
NextNodes(d) ==
    UNION {    {TagNode(p, "td")}
          \cup {CommentNode(p, c) : c \in {L_genre}}
          \cup {TextNode(p, x) : x \in
                   IF LastChild(d, p) # 0 /\ d[LastChild(d, p)].kind = "text"
                   THEN {} ELSE {L_genre, S_Drama}}
          : p \in OpenTags(d)}

RECURSIVE DocsOfLen(_)
DocsOfLen(n) ==
    IF n = 0 THEN {<<>>}
    ELSE UNION {{Append(d, node) : node \in NextNodes(d)} : d \in DocsOfLen(n - 1)}

Docs == UNION {DocsOfLen(n) : n \in 0..MaxNodes}

InitLocate ==
    /\ soup \in Docs
    /\ field_name = L_genre
    /\ is_people \in BOOLEAN
    /\ value = NotCalled
    /\ movie_dict = NotCalled
    /\ IdleNorm /\ IdleCrawl /\ IdleRun

Locate ==
    /\ value = NotCalled
    /\ soup # <<>>
    /\ value' = get_movie_value(soup, field_name, is_people)
    /\ UNCHANGED <<soup, field_name, is_people, movie_dict, normVars, crawlVars,
                   runVars>>

NextLocate == Locate

SpecLocate == InitLocate /\ [][NextLocate]_vars

-----------------------------------------------------------------------------
(* Calls of get_movie_data on movie pages that show some of the fields *)

MaxRows == 2
S_Ann == <<"A", "n", "n", " ", "L", "e", "e">>
S_Bob == <<"B", "o", "b", " ", "R", "a", "y", "*">>

\* a field of the page: the header of the record it fills, the label
\* get_movie_data looks for, and the texts of its value on the page
Field(header, label, texts) ==
    [header |-> header, label |-> label, texts |-> texts]

FieldTable ==
    <<Field({"rating"}, L_rating, <<<<"P", "G">>>>),
      Field({"genre"}, L_genre, <<S_Drama>>),
      Field({"distributor"}, L_distributor, <<<<"F", "o", "x">>>>),
      Field({"theaters"}, L_theaters, <<S_theaters>>),
      Field({"budget"}, L_budget, <<S_budget>>),
      Field({"dom_total_gross"}, L_domestic, <<S_money>>),
      Field({"intl_total_gross"}, L_worldwide, <<S_money>>),
      Field({"oscar_noms", "oscar_wins"}, L_oscars, <<S_oscars_two>>),
      Field({"2-release_date"}, L_release, <<S_date>>),
      Field({"3-closing_date"}, L_close, <<S_date>>),
      Field({"runtime_(mins)"}, L_runtime, <<S_runtime>>),
      Field({"director"}, L_director, <<S_Ann>>),
      Field({"writers"}, L_writer,
            <<S_Ann, (<<"(", "e", "x", "e", "c", "u", "t", "i", "v", "e", ")">>),
              S_Bob>>),
      Field({"actors"}, L_actor, <<S_Bob, S_Ann>>),
      Field({"producers"}, L_producer, <<S_Bob>>)>>

\* <td>label <b>text</b>...</td>: the value is the label's next sibling
SiblingRow(base, f) ==
    <<TagNode(0, "td"), TextNode(base + 1, f.label \o <<" ">>)>>
    \o Concat([k \in DOMAIN f.texts |->
                  <<TagNode(base + 1, "b"),
                    TextNode(base + 2 * k + 1, f.texts[k])>>])

\* <td><b>label</b></td><td><a>text</a>...</td>: the label has no sibling
\* and the value is the next tag in document order
CellRow(base, f) ==
    <<TagNode(0, "td"), TagNode(base + 1, "b"),
      TextNode(base + 2, f.label), TagNode(0, "td")>>
    \o Concat([k \in DOMAIN f.texts |->
                  <<TagNode(base + 4, "a"),
                    TextNode(base + 3 + 2 * k, f.texts[k])>>])

Row(base, i) ==
    IF i % 2 = 0 /\ Len(FieldTable[i].texts) = 1
    THEN SiblingRow(base, FieldTable[i])
    ELSE CellRow(base, FieldTable[i])

RECURSIVE AddRows(_, _)
AddRows(d, shown) ==
    IF shown = {} THEN d
    ELSE LET i == MinOf(shown) IN
         AddRows(d \o Row(Len(d), i), shown \ {i})

TitleElement == <<TagNode(0, "title"), TextNode(1, S_title)>>

MoviePages ==
    {AddRows(head, shown) :
        head \in {<<>>, TitleElement},
        shown \in {S \in SUBSET DOMAIN FieldTable : Cardinality(S) <= MaxRows}}

InitAssemble ==
    /\ soup \in MoviePages
    /\ field_name = <<>>
    /\ is_people = FALSE
    /\ value = NotCalled
    /\ movie_dict = NotCalled
    /\ IdleNorm /\ IdleCrawl /\ IdleRun

Assemble ==
    /\ movie_dict = NotCalled
    /\ movie_dict' = get_movie_data(soup)
    /\ UNCHANGED <<soup, field_name, is_people, value, normVars, crawlVars,
                   runVars>>

NextAssemble == Assemble

SpecAssemble == InitAssemble /\ [][NextAssemble]_vars

-----------------------------------------------------------------------------
(* The first phase: get_movies_from_letters, get_num_movies and the dump   *)
(* of the list.  letter_list is the configuration (the script binds it at  *)
(* line 292, after its use at line 280).                                   *)
(*                                                                         *)
(* An href is the sequence of its parts.  What the site serves for an      *)
(* index page is chosen when the page is fetched.  The site has MaxPage    *)
(* index pages for a letter: for a higher page number it serves the last   *)
(* of them again, so a letter whose last page lists a movie never yields   *)
(* an empty page.  Page numbers above MaxPage are one value, MaxPage + 1,  *)
(* and the list is not recorded to grow there: it is never returned.       *)

MaxPage == 2
Letters == {"A", "B"}
H_a == <<"/", "movies/?id", "=", "a.htm">>
H_b == <<"/", "movies/?id", "=", "b.htm">>
H_about == <<"/", "about.htm">>

\* the hrefs of the anchors in the div with id "body" of an index page
IndexPages == {<<>>, <<H_about>>, <<H_a>>, <<H_a, H_about, H_b>>, <<H_b, H_b>>}

LetterLists ==
    {l \in UNION {[1..n -> Letters] : n \in 0..Cardinality(Letters)} :
        \A i, j \in DOMAIN l : l[i] = l[j] => i = j}

\* [tag['href'] for tag in body.find_all('a') if 'movies/?id' in tag['href']]
get_movies_on_page(hrefs) ==
    SelectSeq(hrefs, LAMBDA href : re_search(<<"movies/?id">>, href))

\* the test of line 245 off by one
at_most_one_movie(urls) == Len(urls) <= 1

\* line 245: the test that ends a letter
no_movies(urls) == Len(urls) = 0

\* what the site serves for the page the loop is at
Servable ==
    IF page <= MaxPage THEN IndexPages ELSE {served[Len(served)].hrefs}

InitCrawl ==
    /\ letter_list \in LetterLists
    /\ pc = "start"
    /\ letter_i = 0
    /\ page = 0
    /\ movie_urls = <<>>
    /\ all_movie_urls = <<>>
    /\ served = <<>>
    /\ all_movies_list = <<>>
    /\ list_pkl = <<>>
    /\ IdleNorm /\ IdleLoc /\ IdleRun

\* lines 232-236: the first letter, or the return of [] for no letter
StartCrawl ==
    /\ pc = "start"
    /\ IF letter_list = <<>>
       THEN /\ pc' = "num"
            /\ all_movies_list' = <<all_movie_urls>>
            /\ UNCHANGED <<letter_i, page>>
       ELSE /\ pc' = "fetch"
            /\ letter_i' = 1
            /\ page' = 1
            /\ UNCHANGED all_movies_list
    /\ UNCHANGED <<letter_list, movie_urls, all_movie_urls, served, list_pkl,
                   normVars, locVars, runVars>>

\* lines 240-242: the page is fetched, parsed and its movie links taken
FetchIndexPage ==
    /\ pc = "fetch"
    /\ \E hrefs \in Servable :
          /\ movie_urls' = get_movies_on_page(hrefs)
          /\ served' = IF page <= MaxPage
                       THEN Append(served, [letter_i |-> letter_i,
                                            page |-> page, hrefs |-> hrefs])
                       ELSE served
    /\ pc' = "extend"
    /\ UNCHANGED <<letter_list, letter_i, page, all_movie_urls,
                   all_movies_list, list_pkl, normVars, locVars, runVars>>

\* lines 240-242 raise: requests.get raises on a network error, and
\* get_movies_on_page raises AttributeError on a document without body or
\* without the element of id "body".  Nothing catches it: the script ends.
FetchIndexPageRaises ==
    /\ pc = "fetch"
    /\ pc' = "raised"
    /\ UNCHANGED <<letter_list, letter_i, page, movie_urls, all_movie_urls,
                   served, all_movies_list, list_pkl, normVars, locVars,
                   runVars>>

\* lines 243-247 and 280: the list grows, the page number too; an empty page
\* ends the letter, and the last letter's end returns the list
ExtendAndTest ==
    /\ pc = "extend"
    /\ all_movie_urls' = IF page <= MaxPage THEN all_movie_urls \o movie_urls
                         ELSE all_movie_urls
    /\ IF no_movies(movie_urls)
       THEN IF letter_i < Len(letter_list)
            THEN /\ letter_i' = letter_i + 1
                 /\ page' = 1
                 /\ pc' = "fetch"
                 /\ UNCHANGED all_movies_list
            ELSE /\ pc' = "num"
                 /\ all_movies_list' = <<all_movie_urls'>>
                 /\ UNCHANGED <<letter_i, page>>
       ELSE /\ page' = IF page <= MaxPage THEN page + 1 ELSE page
            /\ pc' = "fetch"
            /\ UNCHANGED <<letter_i, all_movies_list>>
    /\ UNCHANGED <<letter_list, movie_urls, served, list_pkl, normVars,
                   locVars, runVars>>

\* lines 250-254 and 281-282: the one page of the movies under NUM
GetNumMovies ==
    /\ pc = "num"
    /\ \E hrefs \in IndexPages :
          all_movies_list' =
              <<all_movies_list[1] \o get_movies_on_page(hrefs)>>
    /\ pc' = "dump"
    /\ UNCHANGED <<letter_list, letter_i, page, movie_urls, all_movie_urls,
                   served, list_pkl, normVars, locVars, runVars>>

GetNumMoviesRaises ==
    /\ pc = "num"
    /\ pc' = "raised"
    /\ UNCHANGED <<letter_list, letter_i, page, movie_urls, all_movie_urls,
                   served, all_movies_list, list_pkl, normVars, locVars,
                   runVars>>

\* lines 284-288: the list is dumped, and loaded again
DumpList ==
    /\ pc = "dump"
    /\ list_pkl' = all_movies_list
    /\ pc' = "done"
    /\ UNCHANGED <<letter_list, letter_i, page, movie_urls, all_movie_urls,
                   served, all_movies_list, normVars, locVars, runVars>>

NextCrawl ==
    \/ StartCrawl
    \/ FetchIndexPage
    \/ FetchIndexPageRaises
    \/ ExtendAndTest
    \/ GetNumMovies
    \/ GetNumMoviesRaises
    \/ DumpList

SpecCrawl == InitCrawl /\ [][NextCrawl]_vars

\* the script runs on: a step that can be taken is taken
LiveCrawl == SpecCrawl /\ WF_vars(NextCrawl)

-----------------------------------------------------------------------------
(* The second phase: get_all_movie_data over a list of movie URLs, and the *)
(* dumps of its two results.  The files may hold an earlier run's results. *)

MaxUrls == 2
MovieUrls == {H_a, H_b, <<"/", "movies/?id">>}
UrlLists == UNION {[1..n -> MovieUrls] : n \in 0..MaxUrls}
url_prefix == <<"http://www.boxofficemojo.com">>

\* what a request of a movie page gives: requests.get raises, or a document
NetworkError == [kind |-> "error"]
Page(d) == [kind |-> "page", val |-> d]
ServedPages == {<<>>, TitleElement, AddRows(TitleElement, {2})}
Responses == {NetworkError} \cup {Page(d) : d \in ServedPages}

\* get_movie_data of each page the site serves
MovieData == [d \in ServedPages |-> get_movie_data(d)]

\* lines 264-266, the try block up to the append: the data_dict, or Raised
data_dict_try(movie, response) ==
    IF response.kind = "error" THEN Raised
    ELSE LET data_dict == MovieData[response.val]
             parts == split(movie, {"="})
         IN  IF data_dict.kind = "raise" THEN Raised
             ELSE IF Len(parts) < 2 THEN Raised       \* IndexError
             ELSE PyDict([k \in DOMAIN data_dict.val \cup {"url"} |->
                             IF k = "url" THEN PyStr(parts[2])
                             ELSE data_dict.val[k]])

\* line 267
data_after(data, result) ==
    IF result.kind = "raise" THEN data ELSE Append(data, result)

\* an except branch that records nothing
failed_unrecorded(failed, url, result) == failed

\* lines 268-270
failed_after(failed, url, result) ==
    IF result.kind = "raise" THEN Append(failed, url) ELSE failed

\* the records an earlier run over the movies of S left in the file
EarlierData(S) ==
    LET RECURSIVE Records(_)
        Records(R) ==
            IF R = {} THEN <<>>
            ELSE LET u == CHOOSE x \in R : TRUE IN
                 <<data_dict_try(u, Page(TitleElement))>> \o Records(R \ {u})
    IN  Records(S)

InitRun ==
    /\ url_list \in UrlLists
    /\ rpc = "loop"
    /\ next_i = 1
    /\ all_movie_data = <<>>
    /\ failed_urls = <<>>
    /\ requested = <<>>
    /\ stored \in SUBSET {H_a, H_b}
    /\ data_pkl = IF stored = {} THEN <<>> ELSE <<EarlierData(stored)>>
    /\ failed_pkl = IF stored = {} THEN <<>> ELSE <<(<<>>)>>
    /\ IdleNorm /\ IdleLoc /\ IdleCrawl

\* lines 261-271: one pass of the loop
ProcessUrl ==
    /\ rpc = "loop"
    /\ next_i <= Len(url_list)
    /\ \E response \in Responses :
          LET movie == url_list[next_i]
              url == url_prefix \o movie
              result == data_dict_try(movie, response)
          IN  /\ all_movie_data' = data_after(all_movie_data, result)
              /\ failed_urls' = failed_after(failed_urls, url, result)
              /\ requested' = Append(requested, movie)
    /\ next_i' = next_i + 1
    /\ UNCHANGED <<url_list, rpc, data_pkl, failed_pkl, stored, normVars,
                   locVars, crawlVars>>

\* lines 272 and 293-296: the lists are returned and the records dumped;
\* open(..., 'w') truncates the file
DumpData ==
    /\ rpc = "loop"
    /\ next_i > Len(url_list)
    /\ data_pkl' = <<all_movie_data>>
    /\ rpc' = "dump_failed"
    /\ UNCHANGED <<url_list, next_i, all_movie_data, failed_urls, requested,
                   failed_pkl, stored, normVars, locVars, crawlVars>>

\* lines 298-299
DumpFailed ==
    /\ rpc = "dump_failed"
    /\ failed_pkl' = <<failed_urls>>
    /\ rpc' = "done"
    /\ UNCHANGED <<url_list, next_i, all_movie_data, failed_urls, requested,
                   data_pkl, stored, normVars, locVars, crawlVars>>

NextRun ==
    \/ ProcessUrl
    \/ DumpData
    \/ DumpFailed

SpecRun == InitRun /\ [][NextRun]_vars

-----------------------------------------------------------------------------
(* The claims *)

Count(s, Test(_)) == Len(SelectSeq(s, Test))
Returned == pc \in {"num", "dump", "done"}
LinksOf(entries) == Concat([k \in DOMAIN entries |-> get_movies_on_page(entries[k].hrefs)])

\* C1: every URL of url_list ends in exactly one of a record and a failed
\* url: at every point of the loop the records and the failures together
\* are the URLs processed so far, URL by URL; the loop requests every URL in
\* turn, whatever failed before, and after it the two lists together are as
\* long as url_list.
C1_OneOutcomePerUrl ==
    rpc # "idle" =>
        /\ Len(all_movie_data) + Len(failed_urls) = next_i - 1
        /\ requested = SubSeq(url_list, 1, next_i - 1)
        /\ rpc # "loop" => Len(all_movie_data) + Len(failed_urls) = Len(url_list)
        /\ \A u \in MovieUrls :
              Count(requested, LAMBDA m : m = u)
                  = Count(all_movie_data,
                          LAMBDA r : <<r.val["url"].val>> = Tail(split(u, {"="})))
                    + Count(failed_urls, LAMBDA f : f = url_prefix \o u)

\* a run in which the first URL failed and a later one gave a record
C1_Witness ==
    /\ rpc = "done"
    /\ Len(url_list) >= 2
    /\ failed_urls # <<>>
    /\ failed_urls[1] = url_prefix \o url_list[1]
    /\ all_movie_data # <<>>

\* C2: the pages of a letter are fetched from page 1 upwards, one by one; a
\* page without movie links is the last of its letter and the next fetch is
\* page 1 of the next letter; when the function returns, every letter has
\* been fetched up to such a page and the list holds the links of all the
\* pages fetched.  A letter whose page 1 has no links is one fetch.
C2_Pagination ==
    /\ \A k \in DOMAIN served :
          /\ served[k].page =
                Cardinality({j \in 1..k : served[j].letter_i = served[k].letter_i})
          /\ k = 1 => served[k].letter_i = 1
          /\ k < Len(served) =>
                IF get_movies_on_page(served[k].hrefs) = <<>>
                THEN /\ served[k + 1].letter_i = served[k].letter_i + 1
                     /\ served[k + 1].page = 1
                ELSE /\ served[k + 1].letter_i = served[k].letter_i
                     /\ served[k + 1].page = served[k].page + 1
    /\ Returned =>
          /\ all_movie_urls = LinksOf(served)
          /\ \A i \in DOMAIN letter_list :
                \E k \in DOMAIN served :
                    /\ served[k].letter_i = i
                    /\ get_movies_on_page(served[k].hrefs) = <<>>
          /\ Len(served) =
                Len(letter_list) + Count(served, LAMBDA e : get_movies_on_page(e.hrefs) # <<>>)

\* a finished crawl of a letter with an empty first page and of a letter
\* with links on page 1 and none on page 2
C2_Witness ==
    /\ pc = "done"
    /\ \E i, j \in DOMAIN letter_list :
          /\ Count(served, LAMBDA e : e.letter_i = i) = 1
          /\ Count(served, LAMBDA e : e.letter_i = j) = 2
    /\ all_movie_urls # <<>>

\* C3: the discovery of the URLs terminates, whatever the site serves
C3_Terminates == <>(pc \in {"done", "raised"})

\* C4: the collection of the first phase holds each URL at most once
C4_NoDuplicates ==
    pc = "done" =>
        \A i, j \in DOMAIN list_pkl[1] :
            list_pkl[1][i] = list_pkl[1][j] => i = j

\* C5: when an index page fails, the URLs collected before are not lost:
\* they are in the list the script has saved
C5_FailureKeepsUrls ==
    pc = "raised" =>
        \A k \in DOMAIN all_movie_urls :
            /\ list_pkl # <<>>
            /\ all_movie_urls[k] \in Range(list_pkl[1])

\* C6: a run over the URLs U (a list without repeats) with results for P in
\* the store requests only the URLs of U \ P, and the store then holds one
\* entry for each URL of U
C6_Resume ==
    (rpc = "done" /\ \A i, j \in DOMAIN url_list : url_list[i] = url_list[j] => i = j) =>
        /\ \A u \in stored : u \notin Range(requested)
        /\ \A u \in Range(url_list) :
              Count(data_pkl[1],
                    LAMBDA r : <<r.val["url"].val>> = Tail(split(u, {"="})))
              + Count(failed_pkl[1], LAMBDA f : f = url_prefix \o u) = 1

Called == fn \notin {"none", "idle"}
Malformed == {PyNone, PyStr(S_empty), PyStr(S_NA)}
Default(name) ==
    IF name \in {"noms_from_oscars", "wins_from_oscars"} THEN PyInt(0)
    ELSE PyNone

\* C7 as stated: every normalizer gives None (0 for the award counts) on
\* None, "" and "N/A"
C7_MalformedGivesDefault ==
    (Called /\ raw \in Malformed) => out = Default(fn)

\* C7 as amended: no normalizer raises; on None each gives None (0 for the
\* award counts); on "" and "N/A" each but clean_title does so, and
\* clean_title gives the text itself
C7_Total ==
    Called =>
        /\ out.kind # "raise"
        /\ raw \in Malformed =>
              out = IF fn = "clean_title" /\ raw.kind = "str" THEN raw
                    ELSE Default(fn)

C7_Witness ==
    /\ fn = "clean_title"
    /\ raw = PyStr(S_NA)
    /\ out = PyStr(S_NA)

\* C8 as stated: for the sentence of the specification 3 nominations and 1
\* win; for a sentence of one clause 0 wins
C8_SpecSentence ==
    /\ (fn = "noms_from_oscars" /\ raw = PyStr(S_oscars_spec)) => out = PyInt(3)
    /\ (fn = "wins_from_oscars" /\ raw = PyStr(S_oscars_spec)) => out = PyInt(1)
    /\ (fn = "wins_from_oscars" /\ raw = PyStr(S_oscars_one)) => out = PyInt(0)

\* C8 as amended: for that sentence 3 nominations and 0 wins (the text after
\* its comma names no count); for "Nominated for eight Oscars, won three."
\* 8 and 3; for every text without a comma 0 wins
C8_CommaClauses ==
    /\ (fn = "noms_from_oscars" /\ raw = PyStr(S_oscars_spec)) => out = PyInt(3)
    /\ (fn = "wins_from_oscars" /\ raw = PyStr(S_oscars_spec)) => out = PyInt(0)
    /\ (fn = "noms_from_oscars" /\ raw = PyStr(S_oscars_two)) => out = PyInt(8)
    /\ (fn = "wins_from_oscars" /\ raw = PyStr(S_oscars_two)) => out = PyInt(3)
    /\ (fn = "wins_from_oscars" /\ raw.kind = "str" /\ "," \notin Range(raw.val))
          => out = PyInt(0)

C8_Witness ==
    /\ fn = "wins_from_oscars"
    /\ raw = PyStr(S_oscars_two)
    /\ out = PyInt(3)

Anchors == {i \in DOMAIN soup : IsString(soup, i) /\ re_search(field_name, soup[i].val)}
SiblingsAfter(o) == {j \in DOMAIN soup : j > o /\ soup[j].parent = soup[o].parent}
TagsAfter(o) == {j \in DOMAIN soup : j > o /\ soup[j].kind = "tag"}
\* the content of a node: the node itself for a list of people, else its text
ContentOf(n) ==
    IF soup[n].kind = "tag"
    THEN IF is_people THEN TagAt(soup, n) ELSE PyStr(get_text(soup, n))
    ELSE IF is_people THEN [kind |-> "string", val |-> soup[n].val, node |-> n]
         ELSE PyStr(soup[n].val)

\* C9 as stated: the value is the content of the immediate next sibling of
\* the first matching text, or without a sibling of the next node
C9_NextNode ==
    value # NotCalled =>
        IF Anchors = {} THEN value = PyNone
        ELSE LET o == MinOf(Anchors) IN
             IF SiblingsAfter(o) # {} THEN value = ContentOf(MinOf(SiblingsAfter(o)))
             ELSE IF o < Len(soup) THEN value = ContentOf(o + 1)
             ELSE value = PyNone

\* C9 as amended: the value is the content of the first tag among the later
\* siblings of the first matching text, texts and comments passed over; with
\* no tag among them, of the first tag after it in the document; with no tag
\* after it, None
C9_NextTag ==
    value # NotCalled =>
        /\ Anchors = {} => value = PyNone
        /\ Anchors # {} =>
              LET o == MinOf(Anchors)
                  sibs == SiblingsAfter(o) \cap TagsAfter(o)
              IN  /\ \A s \in sibs :
                        (\A s2 \in sibs : s <= s2) => value = ContentOf(s)
                  /\ sibs = {} =>
                        \A n \in TagsAfter(o) :
                            (\A n2 \in TagsAfter(o) : n <= n2) => value = ContentOf(n)
                  /\ TagsAfter(o) = {} => value = PyNone

\* the label has no sibling, a text follows it and a tag comes later
C9_Witness ==
    /\ value # NotCalled
    /\ Anchors # {}
    /\ SiblingsAfter(MinOf(Anchors)) = {}
    /\ MinOf(Anchors) < Len(soup)
    /\ soup[MinOf(Anchors) + 1].kind = "text"
    /\ TagsAfter(MinOf(Anchors)) # {}
    /\ value.kind = "str"

\* C10: in the record, a field whose label is not in the document is None,
\* and 0 for the two award counts
C10_AbsentIsNone ==
    movie_dict.kind = "dict" =>
        \A i \in DOMAIN FieldTable :
            find_text(soup, FieldTable[i].label) = 0 =>
                \A h \in FieldTable[i].header :
                    movie_dict.val[h] =
                        IF h \in {"oscar_noms", "oscar_wins"} THEN PyInt(0)
                        ELSE PyNone

====
